---- MODULE Spec2Model ----
(***************************************************************************)
(* Model of igvf_dump_metadata.py: the Property Projector                  *)
(* (get_props_from_ids), the Link Resolver (get_link_prop_ids_from_ids),   *)
(* the Table Assembler (output_df), the status style function              *)
(* (status_color) and the Report Driver (main).                            *)
(*                                                                         *)
(* A Python str is a sequence of tokens: one token per identifier or word, *)
(* and the token SEP for the two characters ", ".  str.split(', ') and     *)
(* ', '.join are computed on that representation.  A dotted column name is *)
(* the sequence of its dot-separated components.                           *)
(* A JSON value is a record [t, s, items, keys]: t is its Python type.     *)
(***************************************************************************)
EXTENDS Integers, Sequences, FiniteSets, TLC

VARIABLES
  remote,        \* the remote API: request path -> response
  obj_ids,       \* the identifier sequence of the current call
  prop_fields,   \* the field list of the current call
  call,          \* which function the current call is ("props" | "link")
  callNo,        \* 1 for the first call of the run, 2 for the later one
  i,             \* rows of obj_ids already processed by the current call
  st,            \* locals of the current call: props_dict, obj_json_dict, ...
  pc,            \* position of the run
  first,         \* the locals the first call ended with
  val,           \* Link Resolver / style function: the value under test
  out,           \* result of the pure function applied to val
  dfs,           \* output_df: the input tables
  df_out,        \* output_df: the assembled table
  m              \* locals of main()

vars == <<remote, obj_ids, prop_fields, call, callNo, i, st, pc, first,
          val, out, dfs, df_out, m>>

(***************************** bounds **************************************)
MaxRows == 2     \* longest identifier sequence of a projection call
MaxList == 2     \* longest list value handed to the pure functions
MaxCols == 2     \* most columns of one table handed to output_df

(***************************** strings *************************************)
SEP == ", "

RECURSIVE SepIndex(_, _)
\* index of the first SEP in s at or after k, 0 when there is none
SepIndex(s, k) ==
  IF k > Len(s) THEN 0
  ELSE IF s[k] = SEP THEN k ELSE SepIndex(s, k + 1)

RECURSIVE Split(_)
\* str.split(', ')
Split(s) ==
  LET k == SepIndex(s, 1)
  IN  IF k = 0 THEN <<s>>
      ELSE <<SubSeq(s, 1, k - 1)>> \o Split(SubSeq(s, k + 1, Len(s)))

RECURSIVE Join(_)
\* ', '.join(xs)
Join(xs) ==
  IF xs = <<>> THEN <<>>
  ELSE IF Len(xs) = 1 THEN xs[1]
  ELSE xs[1] \o <<SEP>> \o Join(Tail(xs))

(***************************** JSON values *********************************)
Null == [t |-> "null", s |-> <<>>, items |-> <<>>, keys |-> {}]
Str(s) == [t |-> "str", s |-> s, items |-> <<>>, keys |-> {}]
Word(w) == Str(<<w>>)
\* a dict with the given keys; id is the value of its '@id' key
Dict(keys, id) == [t |-> "dict", s |-> id, items |-> <<>>, keys |-> keys]
List(items) == [t |-> "list", s |-> <<>>, items |-> items, keys |-> {}]
EmptyDict == Dict({}, <<>>)
Obj(id) == Dict({"@id"}, id)

\* Python truthiness: `not v`
Falsy(v) ==
  \/ v.t = "null"
  \/ v.t = "str" /\ v.s = <<>>
  \/ v.t = "dict" /\ v.keys = {}
  \/ v.t = "list" /\ v.items = <<>>

\* dict.get(p) on a fetched record: an absent key yields None
Get(obj_json, p) == IF p \in DOMAIN obj_json THEN obj_json[p] ELSE Null

(***************************** the remote API ******************************)
\* Body of the API's non-success (404) response: a JSON record that is no
\* entity; its "status" key holds "error".
ErrorBody == ("status" :> Word("error")) @@ ("code" :> Word("404"))

Ok(entity) == [kind |-> "ok", body |-> entity]
HttpErrorJson == [kind |-> "http_error_json", body |-> ErrorBody]
HttpErrorText == [kind |-> "http_error_text", body |-> <<>>]
TransportError == [kind |-> "transport_error", body |-> <<>>]

\* The response to GET url+path: a path the API does not know is answered
\* with the 404 record.
Respond(rem, path) == IF path \in DOMAIN rem THEN rem[path] ELSE HttpErrorJson

\* requests.get(url+obj_id, auth=auth).json(): requests.get raises on a
\* transport error and .json() raises on a body that is not JSON; the
\* status code is never looked at, so any JSON body is returned.
Fetch(rem, path) ==
  LET r == Respond(rem, path)
  IN  [raised |-> r.kind \in {"transport_error", "http_error_text"},
       kind   |-> r.kind,
       json   |-> r.body]

(***************************** column dictionaries *************************)
\* prefix + '.' + p
PropKey(prefix, p) == prefix \o <<p>>
\* '.'.join([prefix, p, '@id'])
LinkKey(prefix, p) == prefix \o <<p, "@id">>
\* k.endswith('audit'), k.endswith('status')
EndsWith(k, w) == Len(k) > 0 /\ k[Len(k)] = w

\* A dict of columns keeps its insertion order: it is the sequence of its
\* items [name, vals], each name once.  pandas.DataFrame(props_dict) is the
\* same sequence.
Names(d) == {d[j].name : j \in DOMAIN d}
Col(d, k) == d[CHOOSE j \in DOMAIN d : d[j].name = k].vals

\* props_dict[k].append(v) on a defaultdict(list)
AppendCol(d, k, v) ==
  IF k \in Names(d)
  THEN [j \in DOMAIN d |->
          IF d[j].name = k THEN [d[j] EXCEPT !.vals = Append(@, v)] ELSE d[j]]
  ELSE Append(d, [name |-> k, vals |-> <<v>>])

\* the locals of one call of get_props_from_ids / get_link_prop_ids_from_ids
NewCall ==
  [props_dict |-> <<>>, obj_json_dict |-> <<>>, fetched |-> <<>>,
   raised |-> FALSE, exc |-> "none"]

Raise(s, e) == [s EXCEPT !.raised = TRUE, !.exc = e]

(***************************** reset_empty_audits **************************)
RECURSIVE AllFalsy(_)
\* all(not a for a in audit)
AllFalsy(items) ==
  IF items = <<>> THEN TRUE
  ELSE Falsy(items[1]) /\ AllFalsy(Tail(items))

\* ResetAudit without the list case of lines 71-73
ResetAudit_NoList(audit) == IF Falsy(audit) THEN Null ELSE audit

\* lines 71-76: the value one row of an audit column is reset to
ResetAudit(audit) ==
  IF audit.t = "list"
  THEN IF AllFalsy(audit.items) THEN Null ELSE audit
  ELSE IF Falsy(audit) THEN Null ELSE audit

reset_empty_audits(props_dict) ==
  [j \in DOMAIN props_dict |->
     IF EndsWith(props_dict[j].name, "audit")
     THEN [props_dict[j] EXCEPT
             !.vals = [r \in DOMAIN @ |-> ResetAudit(@[r])]]
     ELSE props_dict[j]]

(***************************** get_props_from_ids **************************)
\* CachedFetch without the look-up of obj_json_dict: every use requests
CachedFetch_Always(rem, s, id) ==
  LET r == Fetch(rem, id)
      s1 == [s EXCEPT !.fetched = Append(@, <<id, r.kind>>)]
  IN  IF r.raised THEN Raise(s1, r.kind)
      ELSE [s1 EXCEPT !.obj_json_dict = (id :> r.json) @@ @]

\* lines 94-98 and 107-111: the memoized fetch of one identifier
CachedFetch(rem, s, id) ==
  IF id \in DOMAIN s.obj_json_dict
  THEN s
  ELSE LET r == Fetch(rem, id)
           s1 == [s EXCEPT !.fetched = Append(@, <<id, r.kind>>)]
       IN  IF r.raised THEN Raise(s1, r.kind)
           ELSE [s1 EXCEPT !.obj_json_dict = @ @@ (id :> r.json)]

RECURSIVE AppendAll(_, _, _, _)
\* for p in prop_fields: props_dict[prefix + '.' + p].append(value(p))
\* with value(p) = obj_json.get(p), or None when obj_json is no record
AppendAll(d, prefix, fields, obj_json) ==
  IF fields = <<>> THEN d
  ELSE AppendAll(AppendCol(d, PropKey(prefix, fields[1]), Get(obj_json, fields[1])),
                 prefix, Tail(fields), obj_json)

\* PropsNullRow without the appends: a None row is skipped
PropsNullRow_NoAppend(s, fields, prefix) == s

\* lines 88-91: a None row
PropsNullRow(s, fields, prefix) ==
  [s EXCEPT !.props_dict = AppendAll(@, prefix, fields, <<>>)]

\* lines 100-101: s1 are the locals after the fetch of obj_id
AppendFetched(s1, obj_id, fields, prefix) ==
  IF s1.raised THEN s1
  ELSE [s1 EXCEPT !.props_dict =
          AppendAll(@, prefix, fields, s1.obj_json_dict[obj_id])]

\* lines 93-101: a row holding one identifier
PropsSingleRow(rem, s, obj_id, fields, prefix) ==
  AppendFetched(CachedFetch(rem, s, obj_id), obj_id, fields, prefix)

RECURSIVE PList(_, _, _, _, _, _), PListAppend(_, _, _, _, _, _)
\* lines 105-113: p_list for one field p over the sub-identifiers ids from
\* the k-th on; s1 are the locals after the fetch of ids[k - 1] (of nothing
\* for k = 1) and acc the list so far.  The result is the locals with the
\* finished list in .p_list
PList(rem, s1, ids, k, p, acc) ==
  IF s1.raised \/ k > Len(ids) THEN [s |-> s1, p_list |-> acc]
  ELSE PListAppend(rem, CachedFetch(rem, s1, ids[k]), ids, k, p, acc)

\* PListAppend inserting at the front: p_list in reverse order
PListAppend_Prepend(rem, s1, ids, k, p, acc) ==
  IF s1.raised THEN [s |-> s1, p_list |-> acc]
  ELSE PList(rem, s1, ids, k + 1, p,
             <<Get(s1.obj_json_dict[ids[k]], p)>> \o acc)

\* line 113: p_list.append(obj_json.get(p)) for the fetched ids[k]
PListAppend(rem, s1, ids, k, p, acc) ==
  IF s1.raised THEN [s |-> s1, p_list |-> acc]
  ELSE PList(rem, s1, ids, k + 1, p,
             Append(acc, Get(s1.obj_json_dict[ids[k]], p)))

RECURSIVE PropsMultiRow(_, _, _, _, _)
\* line 114: props_dict[prefix + '.' + p].append(p_list), then the next field
AppendPList(rem, r, obj_id, fields, prefix) ==
  IF r.s.raised THEN r.s
  ELSE PropsMultiRow(
         rem,
         [r.s EXCEPT !.props_dict =
            AppendCol(@, PropKey(prefix, fields[1]), List(r.p_list))],
         obj_id, Tail(fields), prefix)

\* lines 103-114: a row holding several identifiers
PropsMultiRow(rem, s, obj_id, fields, prefix) ==
  IF fields = <<>> THEN s
  ELSE AppendPList(rem, PList(rem, s, Split(obj_id), 1, fields[1], <<>>),
                   obj_id, fields, prefix)

\* lines 87-114: the body of the loop for one element of obj_ids
PropsRow(rem, s, obj_id, fields, prefix) ==
  IF obj_id.t = "null" THEN PropsNullRow(s, fields, prefix)
  ELSE IF Len(Split(obj_id.s)) = 1
       THEN PropsSingleRow(rem, s, obj_id.s, fields, prefix)
       ELSE PropsMultiRow(rem, s, obj_id.s, fields, prefix)

\* lines 116-118; a call that raised returns nothing
PropsReturn(s) ==
  IF s.raised THEN s ELSE [s EXCEPT !.props_dict = reset_empty_audits(@)]

RECURSIVE PropsLoop(_, _, _, _, _)
PropsLoop(rem, s, ids, fields, prefix) ==
  IF ids = <<>> \/ s.raised THEN s
  ELSE PropsLoop(rem, PropsRow(rem, s, ids[1], fields, prefix),
                 Tail(ids), fields, prefix)

\* a whole call of get_props_from_ids
get_props_from_ids(rem, ids, fields, prefix) ==
  PropsReturn(PropsLoop(rem, NewCall, ids, fields, prefix))

(***************************** get_link_prop_ids_from_ids ******************)
RECURSIVE IdsOf(_)
\* [i['@id'] for i in items], defined when every i is a dict with an '@id'
IdsOf(items) ==
  IF items = <<>> THEN <<>> ELSE <<items[1].s>> \o IdsOf(Tail(items))

\* i['@id'] raises on i: TypeError on a str, a list or None, KeyError on a
\* dict without the key
Subscriptable(v) == v.t = "dict" /\ "@id" \in v.keys

RECURSIVE StrsOf(_)
StrsOf(items) ==
  IF items = <<>> THEN <<>> ELSE <<items[1].s>> \o StrsOf(Tail(items))

\* LinkCell without the join of line 144: the first object's identifier only
LinkCell_FirstOnly(obj_json, p) ==
  LET v == Get(obj_json, p)
  IN  IF Falsy(v) THEN [raised |-> FALSE, v |-> Null]
      ELSE IF v.t = "list"
      THEN IF v.items[1].t = "dict"
           THEN IF \A k \in DOMAIN v.items : Subscriptable(v.items[k])
                THEN [raised |-> FALSE, v |-> Str(v.items[1].s)]
                ELSE [raised |-> TRUE, v |-> Null]
           ELSE IF \A k \in DOMAIN v.items : v.items[k].t = "str"
                THEN [raised |-> FALSE, v |-> Str(Join(StrsOf(v.items)))]
                ELSE [raised |-> TRUE, v |-> Null]
      ELSE IF v.t = "dict"
           THEN IF Subscriptable(v)
                THEN [raised |-> FALSE, v |-> Str(v.s)]
                ELSE [raised |-> TRUE, v |-> Null]
           ELSE [raised |-> FALSE, v |-> v]

\* lines 139-153: the cell appended for link field p of the fetched record,
\* or the exception the expression raises
LinkCell(obj_json, p) ==
  LET v == Get(obj_json, p)
  IN  IF Falsy(v) THEN [raised |-> FALSE, v |-> Null]
      ELSE IF v.t = "list"
      THEN IF v.items[1].t = "dict"
           THEN IF \A k \in DOMAIN v.items : Subscriptable(v.items[k])
                THEN [raised |-> FALSE, v |-> Str(Join(IdsOf(v.items)))]
                ELSE [raised |-> TRUE, v |-> Null]
           ELSE IF \A k \in DOMAIN v.items : v.items[k].t = "str"
                THEN [raised |-> FALSE, v |-> Str(Join(StrsOf(v.items)))]
                ELSE [raised |-> TRUE, v |-> Null]
      ELSE IF v.t = "dict"
           THEN IF Subscriptable(v)
                THEN [raised |-> FALSE, v |-> Str(v.s)]
                ELSE [raised |-> TRUE, v |-> Null]
           ELSE [raised |-> FALSE, v |-> v]

RECURSIVE LinkNullRow(_, _, _)
\* lines 130-134: a None row
LinkNullRow(s, fields, prefix) ==
  IF fields = <<>> THEN s
  ELSE LinkNullRow([s EXCEPT !.props_dict = AppendCol(@, LinkKey(prefix, fields[1]), Null)],
                   Tail(fields), prefix)

RECURSIVE LinkCells(_, _, _, _)
\* props_dict[props_key].append(c.v) for the cell c of fields[1], then the
\* next field
AppendLinkCell(s, c, obj_json, fields, prefix) ==
  IF c.raised THEN Raise(s, "TypeError")
  ELSE LinkCells([s EXCEPT !.props_dict =
                    AppendCol(@, LinkKey(prefix, fields[1]), c.v)],
                 obj_json, Tail(fields), prefix)

\* lines 137-153: the loop over the link fields of one fetched record
LinkCells(s, obj_json, fields, prefix) ==
  IF fields = <<>> THEN s
  ELSE AppendLinkCell(s, LinkCell(obj_json, fields[1]), obj_json, fields, prefix)

\* lines 137-153 for the response r to the request of obj_id
LinkFetched(s, r, obj_id, fields, prefix) ==
  IF r.raised
  THEN Raise([s EXCEPT !.fetched = Append(@, <<obj_id, r.kind>>)], r.kind)
  ELSE LinkCells([s EXCEPT !.fetched = Append(@, <<obj_id, r.kind>>)],
                 r.json, fields, prefix)

\* lines 136-153: a row that is not None: the whole cell is requested, not
\* memoized and not split
LinkFetchRow(rem, s, obj_id, fields, prefix) ==
  LinkFetched(s, Fetch(rem, obj_id), obj_id, fields, prefix)

\* lines 129-153: the body of the loop for one element of obj_ids
LinkRow(rem, s, obj_id, fields, prefix) ==
  IF obj_id.t = "null" THEN LinkNullRow(s, fields, prefix)
  ELSE LinkFetchRow(rem, s, obj_id.s, fields, prefix)

RECURSIVE LinkLoop(_, _, _, _, _)
LinkLoop(rem, s, ids, fields, prefix) ==
  IF ids = <<>> \/ s.raised THEN s
  ELSE LinkLoop(rem, LinkRow(rem, s, ids[1], fields, prefix),
                Tail(ids), fields, prefix)

\* a whole call of get_link_prop_ids_from_ids
get_link_prop_ids_from_ids(rem, ids, fields, prefix) ==
  LinkLoop(rem, NewCall, ids, fields, prefix)

(***************************** output_df ***********************************)
\* all(i == 'released' for i in x)
AllReleased(items) == \A k \in DOMAIN items : items[k] = Word("released")

\* status_color without the list case of lines 186-187
status_color_NoList(x) ==
  IF x = Word("released") THEN "lightgreen"
  ELSE IF x = Word("in progress") THEN "grey"
  ELSE "white"

\* lines 183-193; the result is the colour of 'background-color: <colour>'
status_color(x) ==
  IF x = Word("released") THEN "lightgreen"
  ELSE IF x.t = "list" /\ AllReleased(x.items) THEN "lightgreen"
  ELSE IF x = Word("in progress") THEN "grey"
  ELSE "white"

\* lines 198-204
audit_color(x) ==
  IF x.t = "dict" /\ Cardinality(x.keys) = 0 THEN "lightgreen" ELSE "white"

\* a table is the sequence of its columns [name, vals], in column order;
\* pd.concat(dfs, axis=1) puts the tables' columns side by side
RECURSIVE Concat(_)
Concat(tables) ==
  IF tables = <<>> THEN <<>> ELSE tables[1] \o Concat(Tail(tables))

NotAllNull(c) == \E r \in DOMAIN c.vals : c.vals[r].t # "null"
\* .dropna(how='all', axis=1)
DropNa(df) == SelectSeq(df, NotAllNull)

RECURSIVE KeepFirst(_, _)
\* df.loc[:, ~df.columns.duplicated()]: seen holds the names met so far
KeepFirst(df, seen) ==
  IF df = <<>> THEN <<>>
  ELSE IF df[1].name \in seen THEN KeepFirst(Tail(df), seen)
       ELSE <<df[1]>> \o KeepFirst(Tail(df), seen \cup {df[1].name})

\* lines 217-219: each cell's style, "" where no style function applies
Styled(df) ==
  [j \in DOMAIN df |->
     [name  |-> df[j].name,
      vals  |-> df[j].vals,
      style |-> [r \in DOMAIN df[j].vals |->
                   IF EndsWith(df[j].name, "status") THEN status_color(df[j].vals[r])
                   ELSE IF EndsWith(df[j].name, "audit") THEN audit_color(df[j].vals[r])
                   ELSE ""]]]

\* lines 207-221
output_df(tables) ==
  Styled(IF Len(tables) = 1 THEN DropNa(tables[1])
         ELSE KeepFirst(DropNa(Concat(tables)), {}))

(***************************************************************************)
(* SpecCalls: two consecutive calls of the Property Projector and the Link *)
(* Resolver on one identifier sequence, one loop iteration per step.       *)
(***************************************************************************)
IdA == <<"a">>
IdB == <<"b">>
Prefix == <<"input_file_set">>

EntityA ==
  ("status" :> Word("released")) @@ ("audit" :> EmptyDict)
  @@ ("samples" :> List(<<Obj(<<"s1">>), Obj(<<"s2">>)>>))
EntityB ==
  ("status" :> Word("in progress")) @@ ("audit" :> Dict({"ERROR"}, <<>>))
  @@ ("samples" :> Word("s1")) @@ ("donors" :> List(<<Word("d1")>>))
EntityC == <<>>

Responses ==
  {Ok(EntityA), Ok(EntityB), Ok(EntityC), HttpErrorJson, HttpErrorText, TransportError}

\* None, single identifiers and comma-joined multi-identifier strings
Cells ==
  {Null, Str(IdA), Str(IdB), Str(Join(<<IdA, IdB>>)), Str(Join(<<IdA, IdA>>))}

SeqsUpTo(S, n) == UNION {[1..k -> S] : k \in 0..n}

FieldLists(c) ==
  IF c = "props"
  THEN {<<"status">>, <<"audit">>, <<"status", "audit">>, <<"audit", "status">>}
  ELSE {<<"samples">>, <<"samples", "donors">>}

\* the variables the other specifications use
IdleCalls ==
  /\ obj_ids = <<>> /\ prop_fields = <<>> /\ call = "none" /\ callNo = 0
  /\ i = 0 /\ st = NewCall /\ first = NewCall
IdlePure == val = Null /\ out = Null
IdleTables == dfs = <<>> /\ df_out = <<>>
IdleMain == m = <<>>

InitCalls ==
  /\ remote \in [{IdA, IdB} -> Responses]
  /\ obj_ids \in SeqsUpTo(Cells, MaxRows)
  /\ call \in {"props", "link"}
  /\ prop_fields \in FieldLists(call)
  /\ callNo = 1 /\ i = 0 /\ st = NewCall /\ first = NewCall
  /\ pc = "run"
  /\ IdlePure /\ IdleTables /\ IdleMain

\* one iteration of a call's loop ended with locals s
Iterate(s) ==
  /\ st' = s
  /\ i' = i + 1
  /\ pc' = IF s.raised THEN "aborted" ELSE "run"
  /\ UNCHANGED <<remote, obj_ids, prop_fields, call, callNo, first,
                 val, out, dfs, df_out, m>>

InLoop(c) == pc = "run" /\ call = c /\ i < Len(obj_ids)

PropsNull ==
  /\ InLoop("props") /\ obj_ids[i + 1].t = "null"
  /\ Iterate(PropsNullRow(st, prop_fields, Prefix))

PropsSingle ==
  /\ InLoop("props") /\ obj_ids[i + 1].t # "null"
  /\ Len(Split(obj_ids[i + 1].s)) = 1
  /\ Iterate(PropsSingleRow(remote, st, obj_ids[i + 1].s, prop_fields, Prefix))

PropsMulti ==
  /\ InLoop("props") /\ obj_ids[i + 1].t # "null"
  /\ Len(Split(obj_ids[i + 1].s)) # 1
  /\ Iterate(PropsMultiRow(remote, st, obj_ids[i + 1].s, prop_fields, Prefix))

LinkNull ==
  /\ InLoop("link") /\ obj_ids[i + 1].t = "null"
  /\ Iterate(LinkNullRow(st, prop_fields, Prefix))

LinkFetch ==
  /\ InLoop("link") /\ obj_ids[i + 1].t # "null"
  /\ Iterate(LinkFetchRow(remote, st, obj_ids[i + 1].s, prop_fields, Prefix))

\* the loop is over: get_props_from_ids resets the empty audits and returns,
\* get_link_prop_ids_from_ids returns
Return ==
  /\ pc = "run" /\ i = Len(obj_ids)
  /\ st' = IF call = "props" THEN PropsReturn(st) ELSE st
  /\ pc' = "returned"
  /\ UNCHANGED <<remote, obj_ids, prop_fields, call, callNo, i, first,
                 val, out, dfs, df_out, m>>

\* the caller issues a later call on the same identifiers
NextCall ==
  /\ pc = "returned" /\ callNo = 1
  /\ \E c \in {"props", "link"} :
       /\ call' = c
       /\ prop_fields' = IF c = call THEN prop_fields
                         ELSE IF c = "props" THEN <<"status", "audit">>
                         ELSE <<"samples">>
  /\ callNo' = 2 /\ i' = 0 /\ first' = st /\ st' = NewCall /\ pc' = "run"
  /\ UNCHANGED <<remote, obj_ids, val, out, dfs, df_out, m>>

NextCalls ==
  \/ PropsNull \/ PropsSingle \/ PropsMulti
  \/ LinkNull \/ LinkFetch
  \/ Return \/ NextCall

SpecCalls == InitCalls /\ [][NextCalls]_vars

(***************************************************************************)
(* SpecValues: the functions of one value (status_color, audit_color, the  *)
(* link cell of one fetched record) applied to every value of a bounded    *)
(* universe of JSON values.                                                *)
(***************************************************************************)
Scalars ==
  {Null, Str(<<>>), Word("released"), Word("in progress"), Word("archived"),
   Word("s1"), EmptyDict, Dict({"ERROR"}, <<>>), Obj(<<"s1">>), Obj(<<"s2">>)}
ListItems ==
  {Word("released"), Word("in progress"), Word("s1"), Obj(<<"s1">>), Obj(<<"s2">>)}
Values == Scalars \cup {List(l) : l \in SeqsUpTo(ListItems, MaxList)}

InitValues ==
  /\ val \in Values
  /\ out = Null
  /\ pc = "input"
  /\ remote = <<>>
  /\ IdleCalls /\ IdleTables /\ IdleMain

Applied(fn, absent, raised, v) ==
  /\ pc = "input"
  /\ out' = [fn |-> fn, absent |-> absent, raised |-> raised, v |-> v]
  /\ pc' = "done"
  /\ UNCHANGED <<remote, obj_ids, prop_fields, call, callNo, i, st, first,
                 val, dfs, df_out, m>>

StatusColor == Applied("status_color", FALSE, FALSE, Word(status_color(val)))

AuditColor == Applied("audit_color", FALSE, FALSE, Word(audit_color(val)))

\* the link cell of a record whose field 'samples' is val, or is absent
ResolveLink ==
  \E absent \in BOOLEAN :
    LET obj_json == IF absent THEN <<>> ELSE ("samples" :> val)
        c == LinkCell(obj_json, "samples")
    IN  Applied("link", absent, c.raised, c.v)

NextValues == StatusColor \/ AuditColor \/ ResolveLink

SpecValues == InitValues /\ [][NextValues]_vars

(***************************************************************************)
(* SpecTables: output_df applied to one table and to two tables, whose     *)
(* columns may repeat a name within a table and across tables.             *)
(***************************************************************************)
ColumnNames == {<<"x", "status">>, <<"x", "audit">>}
ColumnCells == {Null, Word("released"), Word("in progress")}
\* one-row columns
Columns == {[name |-> n, vals |-> <<v>>] : n \in ColumnNames, v \in ColumnCells}
Tables == SeqsUpTo(Columns, MaxCols)

InitTables ==
  /\ dfs \in [1..1 -> Tables] \cup [1..2 -> Tables]
  /\ df_out = <<>>
  /\ pc = "input"
  /\ remote = <<>>
  /\ IdleCalls /\ IdlePure /\ IdleMain

Assemble ==
  /\ pc = "input"
  /\ df_out' = output_df(dfs)
  /\ pc' = "done"
  /\ UNCHANGED <<remote, obj_ids, prop_fields, call, callNo, i, st, first,
                 val, out, dfs, m>>

NextTables == Assemble

SpecTables == InitTables /\ [][NextTables]_vars

(***************************************************************************)
(* The Report Driver: configuration, get_link_objs_df and main()           *)
(***************************************************************************)
basic_props == <<"@id", "aliases", "status", "audit">>

link_obj_props ==
  ("input_file_sets" :> <<"measurement_sets", "auxiliary_sets", "control_for",
                          "control_file_sets", "samples",
                          "library_construction_platform", "assay_term",
                          "documents">>)
  @@ ("samples" :> <<"sample_terms", "disease_terms", "biomarkers",
                     "modifications", "sorted_from", "part_of", "donors",
                     "construct_library_sets", "treatments", "originated_from",
                     "sources", "multiplexed_samples", "demultiplexed_from",
                     "barcode_sample_map", "targeted_sample_term",
                     "cell_fate_change_treatments", "cell_fate_change_protocol">>)
  @@ ("files" :> <<"derived_from">>)
  @@ ("auxiliary_sets" :> <<"library_construction_platform">>)
  @@ ("measurement_sets" :> <<"assay_term", "library_construction_platform">>)

output_props ==
  ("modifications" :> <<"summary">>)
  @@ ("treatments" :> <<"summary">>)
  @@ ("disease_terms" :> <<"term_name">>)
  @@ ("samples" :> <<"classifications", "embryonic", "cellular_sub_pool",
                     "sorted_from_detail", "publication_identifiers">>)
  @@ ("construct_library_sets" :> <<"summary", "guide_type", "guide library">>)
  @@ ("donors" :> <<"summary">>)
  @@ ("assay_term" :> <<"term_name">>)
  @@ ("sorted_from" :> <<"construct_library_sets">>)
  @@ ("files" :> <<"file_format", "file_size", "content_type", "upload_status">>)
  @@ ("input_file_sets" :> <<"dbxrefs", "protocols", "multiome_size", "summary",
                             "publication_identifiers">>)

\* any(v is not None for v in vals)
AnyNotNone(vals) == \E r \in DOMAIN vals : vals[r].t # "null"

\* k.replace('.@id', '') on a dotted column name
DropIdSuffix(k) == SelectSeq(k, LAMBDA c : c # "@id")

RECURSIVE Update(_, _)
\* dict.update(e): the value of a key already there is replaced in place, a
\* new key is added at the end
Update(d, e) ==
  IF e = <<>> THEN d
  ELSE Update(IF e[1].name \in Names(d)
              THEN [j \in DOMAIN d |-> IF d[j].name = e[1].name THEN e[1] ELSE d[j]]
              ELSE Append(d, e[1]),
              Tail(e))

\* the outcome of a step of main: the exception state, the requests issued
\* and the table built
Outcome(raised, exc, fetched, df) ==
  [raised |-> raised, exc |-> exc, fetched |-> fetched, df |-> df]

\* lines 168-170: the fields projected for the entities of link column k
PropsList(k) ==
  IF k[Len(k) - 1] \notin DOMAIN output_props THEN basic_props
  ELSE basic_props \o output_props[k[Len(k) - 1]]

\* line 174: query_link_objs_dict.update(props_dict) for the call r
Merge(acc, r) ==
  Outcome(r.raised, r.exc, acc.fetched \o r.fetched, Update(acc.df, r.props_dict))

RECURSIVE LinkObjsLoop(_, _, _, _)
\* lines 165-174: project the entities of every link column that holds an
\* identifier
LinkObjsLoop(rem, cols, j, acc) ==
  IF j > Len(cols) \/ acc.raised THEN acc
  ELSE IF AnyNotNone(cols[j].vals)
  THEN LinkObjsLoop(rem, cols, j + 1,
                    Merge(acc, get_props_from_ids(rem, cols[j].vals,
                                                  PropsList(cols[j].name),
                                                  DropIdSuffix(cols[j].name))))
  ELSE LinkObjsLoop(rem, cols, j + 1, acc)

\* lines 163-177 for the returned call l of get_link_prop_ids_from_ids
LinkObjs(rem, l) ==
  IF l.raised THEN Outcome(TRUE, l.exc, l.fetched, <<>>)
  ELSE LinkObjsLoop(rem, l.props_dict, 1, Outcome(FALSE, "none", l.fetched, <<>>))

\* lines 158-177
get_link_objs_df(rem, query_ids, query_link_obj_props, props_prefix) ==
  LinkObjs(rem, get_link_prop_ids_from_ids(rem, query_ids, query_link_obj_props,
                                           props_prefix))

(***************************** main: reading the input **********************)
Whitespace == {" ", "\t", "\n"}

RECURSIVE LStrip(_)
LStrip(row) ==
  IF row # <<>> /\ row[1] \in Whitespace THEN LStrip(Tail(row)) ELSE row
RECURSIVE RStrip(_)
RStrip(row) ==
  IF row # <<>> /\ row[Len(row)] \in Whitespace
  THEN RStrip(SubSeq(row, 1, Len(row) - 1)) ELSE row
\* row.strip()
Strip(row) == RStrip(LStrip(row))

RECURSIVE TabIndex(_, _)
TabIndex(row, k) ==
  IF k > Len(row) THEN 0 ELSE IF row[k] = "\t" THEN k ELSE TabIndex(row, k + 1)
\* row.split('\t')[0]
FirstField(row) ==
  IF TabIndex(row, 1) = 0 THEN row ELSE SubSeq(row, 1, TabIndex(row, 1) - 1)

\* row.startswith(w), w one token
StartsWith(row, w) == row # <<>> /\ row[1] = w

\* line 239
Accepted(row) ==
  StartsWith(row, "/measurement-sets/") \/ StartsWith(row, "/auxiliary-sets/")

RECURSIVE ReadRows(_)
\* lines 237-240
ReadRows(rows) ==
  IF rows = <<>> THEN <<>>
  ELSE (IF Accepted(rows[1]) THEN <<Str(FirstField(Strip(rows[1])))>> ELSE <<>>)
       \o ReadRows(Tail(rows))

\* [f['@id'] for f in v]: raises unless v is a list of records with an '@id'
IdList(v) ==
  IF v.t = "list" /\ \A k \in DOMAIN v.items : Subscriptable(v.items[k])
  THEN [raised |-> FALSE, ids |-> [k \in DOMAIN v.items |-> Str(v.items[k].s)]]
  ELSE [raised |-> TRUE, ids |-> <<>>]

\* f_id.split('/')[-2]: the accession, the last token of a path
Accession(f_id) == f_id[Len(f_id)]

\* df[[names]]: the columns of df named in names, in that order
Select(df, names) ==
  [k \in DOMAIN names |-> df[CHOOSE j \in DOMAIN df : df[j].name = names[k]]]

RootPrefix == <<"input_file_set">>
RootFields == basic_props \o output_props["input_file_sets"]

(***************************** main: the steps ******************************)
NoOutcome == Outcome(FALSE, "none", <<>>, <<>>)
OfCall(r) == Outcome(r.raised, r.exc, r.fetched, r.props_dict)

\* two consecutive parts of a step: the second runs unless the first raised
Then(o1, o2) ==
  IF o1.raised THEN o1
  ELSE Outcome(o2.raised, o2.exc, o1.fetched \o o2.fetched, o2.df)

\* a step of main ended with outcome o: an exception ends the run, otherwise
\* the locals become upd and the run goes on at next
Advance(next, o, upd) ==
  /\ m' = IF o.raised
          THEN [m EXCEPT !.log = @ \o o.fetched, !.exc = o.exc]
          ELSE [upd EXCEPT !.log = @ \o o.fetched]
  /\ pc' = IF o.raised THEN "aborted" ELSE next
  /\ UNCHANGED <<remote, obj_ids, prop_fields, call, callNo, i, st, first,
                 val, out, dfs, df_out>>

\* lines 232-233 for the response r: fileset_json['input_file_sets'] raises
\* KeyError on a record without the key
InputFileSets(r) ==
  IF r.raised THEN Outcome(TRUE, r.kind, <<>>, <<>>)
  ELSE IF "input_file_sets" \notin DOMAIN r.json
  THEN Outcome(TRUE, "KeyError", <<>>, <<>>)
  ELSE Outcome(IdList(r.json["input_file_sets"]).raised, "TypeError", <<>>,
               IdList(r.json["input_file_sets"]).ids)

\* lines 228-233
ReadAccession ==
  /\ pc = "args" /\ m.mode = "accession"
  /\ \E r \in {Fetch(remote, <<"analysis-sets/", m.accession>>)} :
     \E l \in {InputFileSets(r)} :
       Advance("check",
               Outcome(l.raised, l.exc,
                       <<(<<(<<"analysis-sets/", m.accession>>), r.kind>>)>>, <<>>),
               [m EXCEPT !.fileset_json = r.json, !.ids = l.df])

\* lines 234-240
ReadInfile ==
  /\ pc = "args" /\ m.mode = "infile"
  /\ Advance("check", NoOutcome, [m EXCEPT !.ids = ReadRows(m.infile)])

\* neither option is given
ReadNothing ==
  /\ pc = "args" /\ m.mode = "none"
  /\ Advance("check", NoOutcome, m)

\* lines 242-246
CheckInput ==
  /\ pc = "check"
  /\ IF m.ids = <<>>
     THEN Advance("exit", NoOutcome, [m EXCEPT !.printed = TRUE])
     ELSE Advance("root_props", NoOutcome, m)

\* lines 248-251
RootProps ==
  /\ pc = "root_props"
  /\ \E r \in {get_props_from_ids(remote, m.ids, RootFields, RootPrefix)} :
       Advance("root_links", OfCall(r), [m EXCEPT !.df_0 = r.props_dict])

\* lines 253-254
RootLinks ==
  /\ pc = "root_links"
  /\ \E o \in {get_link_objs_df(remote, m.ids, link_obj_props["input_file_sets"],
                                RootPrefix)} :
       Advance("link_ids", o, [m EXCEPT !.df_link = o.df])

\* lines 257-258
LinkIds ==
  /\ pc = "link_ids"
  /\ \E r \in {get_link_prop_ids_from_ids(remote, m.ids,
                                          link_obj_props["input_file_sets"],
                                          RootPrefix)} :
       Advance("measurement_samples", OfCall(r), [m EXCEPT !.link_ids = r.props_dict])

measurement_ids == Col(m.link_ids, <<"input_file_set", "measurement_sets", "@id">>)
auxiliary_ids == Col(m.link_ids, <<"input_file_set", "auxiliary_sets", "@id">>)
samples_ids == Col(m.link_ids, <<"input_file_set", "samples", "@id">>)

\* lines 265-267: the samples column of the measurement sets is resolved
\* from input_file_sets_ids
MeasurementSamples ==
  /\ pc = "measurement_samples"
  /\ \E r \in {get_link_prop_ids_from_ids(remote, m.ids, <<"samples">>,
                                          <<"input_file_set", "measurement_sets">>)} :
       Advance("measurement_link", OfCall(r),
               [m EXCEPT !.df_measurement_samples_ids = r.props_dict,
                         !.hops = @ \o r.fetched])

\* lines 268-270
MeasurementLink ==
  /\ pc = "measurement_link"
  /\ \E o \in {IF AnyNotNone(measurement_ids)
               THEN get_link_objs_df(remote, measurement_ids,
                                     link_obj_props["measurement_sets"],
                                     <<"input_file_set", "measurement_sets">>)
               ELSE NoOutcome} :
       Advance("auxiliary_samples", o, [m EXCEPT !.df_measurement_link = o.df])

\* lines 272-274
AuxiliarySamples ==
  /\ pc = "auxiliary_samples"
  /\ \E r \in {get_link_prop_ids_from_ids(remote, auxiliary_ids, <<"samples">>,
                                          <<"input_file_set", "auxiliary_sets">>)} :
       Advance("auxiliary_link", OfCall(r),
               [m EXCEPT !.df_auxiliary_samples_ids = r.props_dict,
                         !.hops = @ \o r.fetched])

\* lines 275-277
AuxiliaryLink ==
  /\ pc = "auxiliary_link"
  /\ \E o \in {IF AnyNotNone(auxiliary_ids)
               THEN get_link_objs_df(remote, auxiliary_ids,
                                     link_obj_props["auxiliary_sets"],
                                     <<"input_file_set", "auxiliary_sets">>)
               ELSE NoOutcome} :
       Advance("sheet", o, [m EXCEPT !.df_auxiliary_link = o.df])

Sheet(name, table) == <<[name |-> name, vals |-> table]>>

\* lines 279-281
RootSheet ==
  /\ pc = "sheet"
  /\ Advance("samples_sheet", NoOutcome,
             [m EXCEPT !.df_all_out =
                Update(@, Sheet(<<"input_file_sets">>,
                                output_df(<<m.df_0, m.df_link,
                                            m.df_measurement_samples_ids,
                                            m.df_measurement_link,
                                            m.df_auxiliary_samples_ids,
                                            m.df_auxiliary_link>>)))])

\* lines 283-292
SamplesSheet ==
  /\ pc = "samples_sheet"
  /\ IF AnyNotNone(samples_ids)
     THEN \E o \in {get_link_objs_df(remote, samples_ids, link_obj_props["samples"],
                                     <<"input_file_set", "samples">>)} :
            Advance("analysis_samples", o,
                    [m EXCEPT !.df_all_out =
                       Update(@, Sheet(<<"input_file_sets", "samples">>,
                                       output_df(<<Select(m.df_0,
                                                          [k \in DOMAIN basic_props |->
                                                             PropKey(RootPrefix, basic_props[k])]),
                                                   o.df>>)))])
     ELSE Advance("analysis_samples", NoOutcome, m)

\* lines 299-304 for the identifiers ids of the analysis set's samples
SamplesTables(rem, ids) ==
  <<OfCall(get_props_from_ids(rem, ids, basic_props \o output_props["samples"],
                              <<"analysis_set", "samples">>)),
    get_link_objs_df(rem, ids, link_obj_props["samples"],
                     <<"analysis_set", "samples">>)>>

\* lines 294-307
AnalysisSamples ==
  /\ pc = "analysis_samples"
  /\ IF m.mode = "accession" /\ Get(m.fileset_json, "samples").t # "null"
     THEN \E l \in {IdList(m.fileset_json["samples"])} :
          \E t \in {IF l.raised THEN <<Outcome(TRUE, "TypeError", <<>>, <<>>), NoOutcome>>
                    ELSE SamplesTables(remote, l.ids)} :
            Advance("analysis_files", Then(t[1], t[2]),
                    [m EXCEPT !.df_all_out =
                       Update(@, Sheet(<<"analysis_set", "samples">>,
                                       output_df(<<t[1].df, t[2].df>>)))])
     ELSE Advance("analysis_files", NoOutcome, m)

\* lines 329-332: the table of the files file f_id is derived from; acc.df
\* is df_all_out
DerivedSheet(acc, f_id, r) ==
  Outcome(r.raised, r.exc, acc.fetched \o r.fetched,
          Update(acc.df, Sheet(<<Accession(f_id), "derived_from">>,
                               output_df(<<r.props_dict>>))))

\* d_files_ids.split(', ')
SplitIds(d_files_ids) ==
  [k \in DOMAIN Split(d_files_ids) |-> Str(Split(d_files_ids)[k])]

RECURSIVE DerivedFrom(_, _, _, _, _)
\* lines 324-332: one table per file that has derived_from files
DerivedFrom(rem, files_ids, d_files, j, acc) ==
  IF j > Len(files_ids) \/ acc.raised THEN acc
  ELSE IF d_files[j].t # "null"
  THEN DerivedFrom(rem, files_ids, d_files, j + 1,
                   DerivedSheet(acc, files_ids[j].s,
                                get_props_from_ids(
                                  rem, SplitIds(d_files[j].s),
                                  basic_props \o output_props["files"],
                                  <<Accession(files_ids[j].s), "derived_from">>)))
  ELSE DerivedFrom(rem, files_ids, d_files, j + 1, acc)

\* lines 322-332 for the returned call f of get_link_prop_ids_from_ids
DerivedTables(rem, files_ids, f, sheets) ==
  IF f.raised THEN Outcome(TRUE, f.exc, f.fetched, sheets)
  ELSE DerivedFrom(rem, files_ids,
                   Col(f.props_dict, <<"analysis_set", "files", "derived_from", "@id">>),
                   1, Outcome(FALSE, "none", f.fetched, sheets))

\* lines 314-332 for the returned call r of get_props_from_ids
FilesTables(rem, files_ids, r, sheets) ==
  IF r.raised THEN OfCall(r)
  ELSE Then(OfCall(r),
            DerivedTables(rem, files_ids,
                          get_link_prop_ids_from_ids(rem, files_ids, link_obj_props["files"],
                                                     <<"analysis_set", "files">>),
                          Update(sheets, Sheet(<<"analysis_set", "files">>,
                                               output_df(<<r.props_dict>>)))))

\* lines 309-332
AnalysisFiles ==
  /\ pc = "analysis_files"
  /\ IF m.mode = "accession" /\ ~Falsy(Get(m.fileset_json, "files"))
     THEN \E l \in {IdList(m.fileset_json["files"])} :
          \E o \in {IF l.raised THEN Outcome(TRUE, "TypeError", <<>>, <<>>)
                    ELSE FilesTables(remote, l.ids,
                                     get_props_from_ids(
                                       remote, l.ids,
                                       basic_props \o output_props["files"],
                                       <<"analysis_set", "files">>),
                                     m.df_all_out)} :
            Advance("write", o, [m EXCEPT !.df_all_out = o.df])
     ELSE Advance("write", NoOutcome, m)

\* lines 334-342
WriteExcel ==
  /\ pc = "write"
  /\ Advance("exit", NoOutcome, [m EXCEPT !.written = TRUE])

(***************************************************************************)
(* SpecMain: one run of main() against a remote API holding an analysis    *)
(* set, a measurement set, two auxiliary sets, two samples and two files,  *)
(* one of whose paths may answer with a failure.                           *)
(***************************************************************************)
MaxLines == 2    \* most lines of the input file

PathAS == <<"analysis-sets/", "AS1">>
PathM1 == <<"/measurement-sets/", "M1">>
PathX1 == <<"/auxiliary-sets/", "X1">>
PathX2 == <<"/auxiliary-sets/", "X2">>
PathS1 == <<"/samples/", "S1">>
PathS2 == <<"/samples/", "S2">>
PathF1 == <<"/files/", "F1">>
PathF0 == <<"/files/", "F0">>

Entity(path, status, audit) ==
  ("@id" :> Str(path)) @@ ("status" :> Word(status)) @@ ("audit" :> audit)

\* the analysis sets an accession may name
AnalysisSets ==
  {Entity(PathAS, "released", EmptyDict) @@ links @@ rest :
     links \in {<<>>,
                ("input_file_sets" :> List(<<>>)),
                ("input_file_sets" :> List(<<Obj(PathM1)>>)),
                ("input_file_sets" :> List(<<Obj(PathX1)>>)),
                ("input_file_sets" :> List(<<Obj(PathM1), Obj(PathX1)>>))},
     rest \in {<<>>,
               ("samples" :> List(<<Obj(PathS1)>>)) @@ ("files" :> List(<<Obj(PathF1)>>))}}

\* the measurement set is linked to one auxiliary set, or to two
MeasurementSets ==
  {Entity(PathM1, "released", EmptyDict) @@ ("samples" :> List(<<Obj(PathS1)>>))
     @@ ("auxiliary_sets" :> List(aux)) :
     aux \in {<<Obj(PathX1)>>, <<Obj(PathX1), Obj(PathX2)>>}}

AuxiliarySet(path) ==
  Entity(path, "in progress", Dict({"ERROR"}, <<>>))
  @@ ("samples" :> List(<<Obj(PathS2)>>))
  @@ ("measurement_sets" :> List(<<Obj(PathM1)>>))

Remotes ==
  {(PathAS :> Ok(as)) @@ (PathM1 :> Ok(ms))
   @@ (PathX1 :> Ok(AuxiliarySet(PathX1))) @@ (PathX2 :> Ok(AuxiliarySet(PathX2)))
   @@ (PathS1 :> Ok(Entity(PathS1, "released", EmptyDict)))
   @@ (PathS2 :> Ok(Entity(PathS2, "in progress", EmptyDict)
                    @@ ("donors" :> List(<<Str(<<"/donors/", "D1">>)>>))))
   @@ (PathF1 :> Ok(Entity(PathF1, "released", EmptyDict)
                    @@ ("derived_from" :> List(<<Str(PathF0)>>))))
   @@ (PathF0 :> Ok(Entity(PathF0, "released", EmptyDict))) :
     as \in AnalysisSets, ms \in MeasurementSets}

Failures == {HttpErrorJson, HttpErrorText, TransportError}
FailingPaths == {PathAS, PathM1, PathX1, PathS1}

\* the lines an input file may hold
InfileRows ==
  {<<"/measurement-sets/", "M1", "\n">>,
   <<"/auxiliary-sets/", "X1", "\t", "note", "\n">>,
   <<"/measurement-sets/", "M9", "\n">>,
   <<"/samples/", "S1", "\n">>,
   <<"\n">>}

Locals(mode, infile) ==
  [mode |-> mode, accession |-> "AS1", infile |-> infile,
   fileset_json |-> <<>>, ids |-> <<>>, log |-> <<>>, hops |-> <<>>,
   printed |-> FALSE, written |-> FALSE, exc |-> "none",
   df_0 |-> <<>>, df_link |-> <<>>, link_ids |-> <<>>,
   df_measurement_samples_ids |-> <<>>, df_measurement_link |-> <<>>,
   df_auxiliary_samples_ids |-> <<>>, df_auxiliary_link |-> <<>>,
   df_all_out |-> <<>>]

InitMain ==
  /\ \E base \in Remotes :
       \/ remote = base
       \/ \E path \in FailingPaths, f \in Failures :
            remote = (path :> f) @@ base
  /\ \/ m = Locals("accession", <<>>)
     \/ m = Locals("none", <<>>)
     \/ \E rows \in SeqsUpTo(InfileRows, MaxLines) : m = Locals("infile", rows)
  /\ pc = "args"
  /\ IdleCalls /\ IdlePure /\ IdleTables

NextMain ==
  \/ ReadAccession \/ ReadInfile \/ ReadNothing \/ CheckInput
  \/ RootProps \/ RootLinks \/ LinkIds
  \/ MeasurementSamples \/ MeasurementLink
  \/ AuxiliarySamples \/ AuxiliaryLink
  \/ RootSheet \/ SamplesSheet \/ AnalysisSamples \/ AnalysisFiles
  \/ WriteExcel

SpecMain == InitMain /\ [][NextMain]_vars

(***************************************************************************)
(* Properties of the calls (SpecCalls)                                     *)
(***************************************************************************)
Returned(c) == pc = "returned" /\ call = c
Rows == 1..Len(obj_ids)
FieldSet == {prop_fields[k] : k \in DOMAIN prop_fields}
IsMulti(cell) == cell.t = "str" /\ Len(Split(cell.s)) > 1
IsSingle(cell) == cell.t = "str" /\ Len(Split(cell.s)) = 1
KeyOf(c, p) == IF c = "props" THEN PropKey(Prefix, p) ELSE LinkKey(Prefix, p)

\* the record the API answers a request for id with
Body(id) == Respond(remote, id).body
\* field p of the entities of a multi-identifier cell, in the cell's order
SubValues(cell, p) ==
  LET ids == Split(cell.s) IN [k \in 1..Len(ids) |-> Get(Body(ids[k]), p)]
\* the value fetched for row cell and field p, before any post-processing
Fetched(cell, p) ==
  IF cell.t = "null" THEN Null
  ELSE IF IsMulti(cell) THEN List(SubValues(cell, p))
  ELSE Get(Body(cell.s), p)
\* an empty audit value: an empty record, or a list of empty elements only
EmptyAudit(v) ==
  IF v.t = "list" THEN \A k \in DOMAIN v.items : Falsy(v.items[k]) ELSE Falsy(v)

\* C1: at every point of a call that has not raised, every column holds one
\* row per processed identifier; a returned call has processed them all and
\* has produced exactly one column per field, so every column has as many
\* rows as the input sequence.
C1_ColumnsAligned ==
  /\ pc \in {"run", "returned"} =>
       \A j \in DOMAIN st.props_dict : Len(st.props_dict[j].vals) = i
  /\ pc = "returned" =>
       /\ i = Len(obj_ids)
       /\ obj_ids # <<>> =>
            /\ Names(st.props_dict) = {KeyOf(call, p) : p \in FieldSet}
            /\ Len(st.props_dict) = Len(prop_fields)

\* a later Link Resolver call returned, after a Projector call, on an input
\* mixing None and a multi-identifier string, with two fields each
C1_Witness ==
  /\ Returned("link") /\ callNo = 2 /\ Len(prop_fields) = 2
  /\ Len(first.props_dict) = 2
  /\ \E r \in Rows : obj_ids[r].t = "null"
  /\ \E r \in Rows : IsMulti(obj_ids[r])
  /\ \A j \in DOMAIN st.props_dict : Len(st.props_dict[j].vals) = Len(obj_ids)

\* C2 as claimed: in a returned projection, the cell of a multi-identifier
\* row is, for every field (audit included), the list of the field's values
\* on the sub-identifiers' entities, in order.
C2_AsClaimed ==
  Returned("props") =>
    \A r \in Rows : \A p \in FieldSet :
      IsMulti(obj_ids[r]) =>
        Col(st.props_dict, PropKey(Prefix, p))[r] = List(SubValues(obj_ids[r], p))

\* C2 amended: the same for every field whose column name does not end in
\* 'audit'; in a column whose name ends in 'audit' the cell is that list
\* unless all its elements are empty, and then it is null.
C2_MultiRowList ==
  Returned("props") =>
    \A r \in Rows : \A p \in FieldSet :
      IsMulti(obj_ids[r]) =>
        LET cell == Col(st.props_dict, PropKey(Prefix, p))[r]
            vs == SubValues(obj_ids[r], p)
        IN  /\ cell.t = "list" => Len(cell.items) = Len(Split(obj_ids[r].s))
            /\ IF EndsWith(PropKey(Prefix, p), "audit")
                  /\ \A k \in DOMAIN vs : Falsy(vs[k])
               THEN cell = Null
               ELSE cell = List(vs)

\* a returned projection of status and audit with a row of two different
\* entities whose audit cell is a list and whose statuses differ
C2_Witness ==
  /\ Returned("props") /\ FieldSet = {"status", "audit"}
  /\ \E r \in Rows :
       /\ obj_ids[r] = Str(Join(<<IdA, IdB>>))
       /\ Col(st.props_dict, PropKey(Prefix, "audit"))[r].t = "list"
       /\ LET c == Col(st.props_dict, PropKey(Prefix, "status"))[r]
          IN  c.t = "list" /\ Len(c.items) = 2 /\ c.items[1] # c.items[2]

\* C8: in a returned projection, a cell of a column whose name ends in
\* 'audit' is null when the fetched audit value is empty and is the fetched
\* value otherwise; a cell of any other column is the fetched value; and a
\* table assembled from a projection whose audit values are all empty has
\* no audit column.
C8_EmptyAuditsReset ==
  Returned("props") /\ obj_ids # <<>> =>
    /\ \A r \in Rows : \A p \in FieldSet :
         LET key == PropKey(Prefix, p)
             raw == Fetched(obj_ids[r], p)
         IN  Col(st.props_dict, key)[r] =
               IF EndsWith(key, "audit") /\ EmptyAudit(raw) THEN Null ELSE raw
    /\ (\A r \in Rows : EmptyAudit(Fetched(obj_ids[r], "audit"))) =>
         /\ PropKey(Prefix, "audit") \notin Names(output_df(<<st.props_dict>>))
         /\ PropKey(Prefix, "audit") \notin
              Names(output_df(<<first.props_dict, st.props_dict>>))

\* a returned projection of audit and status whose rows, a single and a
\* multi-identifier one, all have empty audit records: the audit column is
\* all null and the assembled table holds the status column only
C8_Witness ==
  /\ Returned("props") /\ prop_fields = <<"audit", "status">>
  /\ \E r \in Rows : IsSingle(obj_ids[r]) /\ Fetched(obj_ids[r], "audit") = EmptyDict
  /\ \E r \in Rows : IsMulti(obj_ids[r])
                     /\ Fetched(obj_ids[r], "audit") = List(<<EmptyDict, EmptyDict>>)
  /\ \A r \in Rows : Col(st.props_dict, PropKey(Prefix, "audit"))[r] = Null
  /\ Names(output_df(<<st.props_dict>>)) = {PropKey(Prefix, "status")}

\* the paths requested by a call with locals s
Paths(s) == {s.fetched[k][1] : k \in DOMAIN s.fetched}
\* the identifiers a projection of cell reads
SubIds(cell) ==
  IF cell.t = "null" THEN {}
  ELSE {Split(cell.s)[k] : k \in 1..Len(Split(cell.s))}

\* C9: a projection call requests no path twice; a call starts with an
\* empty memoization map, so a later call that returns has requested again
\* every identifier of its input: the projection each sub-identifier, the
\* link resolution each non-null cell.
C9_FetchedOncePerCall ==
  /\ call = "props" =>
       \A j, k \in DOMAIN st.fetched :
         st.fetched[j][1] = st.fetched[k][1] => j = k
  /\ call = "props" =>
       DOMAIN st.obj_json_dict \subseteq Paths(st)
  /\ callNo = 2 /\ pc = "returned" =>
       \A r \in Rows :
         IF call = "props" THEN SubIds(obj_ids[r]) \subseteq Paths(st)
         ELSE obj_ids[r].t # "null" => obj_ids[r].s \in Paths(st)

\* a second projection returned: identifier a stands alone in one row and
\* inside a multi-identifier row, two fields are read, a was requested by
\* the first projection and once more by the second one
C9_Witness ==
  /\ Returned("props") /\ callNo = 2 /\ Len(prop_fields) = 2
  /\ \E r \in Rows : obj_ids[r] = Str(IdA)
  /\ \E r \in Rows : IsMulti(obj_ids[r]) /\ IdA \in SubIds(obj_ids[r])
  /\ IdA \in Paths(first) /\ IdA \in Paths(st)
  /\ Cardinality({k \in DOMAIN st.fetched : st.fetched[k][1] = IdA}) = 1
  /\ Cardinality({k \in DOMAIN first.fetched : first.fetched[k][1] = IdA}) = 1

(***************************************************************************)
(* Properties of the functions of one value (SpecValues)                   *)
(***************************************************************************)
Linked == pc = "done" /\ out.fn = "link"
\* a non-empty list of nested objects and identifier strings
IsLinkList(v) ==
  /\ v.t = "list" /\ v.items # <<>>
  /\ \A k \in DOMAIN v.items :
       \/ v.items[k].t = "dict" /\ "@id" \in v.items[k].keys
       \/ v.items[k].t = "str"
AllOf(v, t) == \A k \in DOMAIN v.items : v.items[k].t = t
\* the identifiers of the elements, each element taken for what it is
ElementIds(v) == [k \in DOMAIN v.items |-> v.items[k].s]
Defined(v) == ~out.raised /\ out.v = v

\* C3 as claimed: null for an absent field or an empty list; for a list the
\* comma-joined identifiers of its elements, classified element by element
\* (so defined for every list of objects and strings); the identifier of a
\* single object; a scalar string unchanged.
C3_AsClaimed ==
  Linked =>
    /\ out.absent \/ val = List(<<>>) => Defined(Null)
    /\ ~out.absent /\ IsLinkList(val) => Defined(Str(Join(ElementIds(val))))
    /\ ~out.absent /\ val.t = "dict" /\ "@id" \in val.keys => Defined(Str(val.s))
    /\ ~out.absent /\ val.t = "str" => Defined(val)

\* C3 amended: a list is classified by its first element only: a list whose
\* elements are all objects, or all strings, gives the comma-joined
\* identifiers, and a list mixing objects and strings raises; every empty
\* value (absent, null, empty list, empty string, empty record) gives null;
\* a single object gives its identifier and a non-empty string itself.
C3_LinkCellByShape ==
  Linked =>
    /\ out.absent \/ Falsy(val) => Defined(Null)
    /\ ~out.absent /\ IsLinkList(val) =>
         IF AllOf(val, "dict") \/ AllOf(val, "str")
         THEN Defined(Str(Join(ElementIds(val))))
         ELSE out.raised
    /\ ~out.absent /\ val.t = "dict" /\ "@id" \in val.keys => Defined(Str(val.s))
    /\ ~out.absent /\ val.t = "str" /\ val.s # <<>> => Defined(val)

\* the link cell of a list of two different nested objects
C3_Witness ==
  /\ Linked /\ ~out.absent
  /\ val = List(<<Obj(<<"s1">>), Obj(<<"s2">>)>>)
  /\ out.v = Str(<<"s1", SEP, "s2">>)

Coloured == pc = "done" /\ out.fn = "status_color"

\* C7 as claimed: "released" and a list of "released" only give lightgreen,
\* "in progress" gives grey, everything else, the empty list included,
\* gives white.
C7_AsClaimed ==
  Coloured =>
    out.v = Word(
      IF val = Word("released") THEN "lightgreen"
      ELSE IF val.t = "list" /\ val.items # <<>>
              /\ \A k \in DOMAIN val.items : val.items[k] = Word("released")
           THEN "lightgreen"
      ELSE IF val = Word("in progress") THEN "grey"
      ELSE "white")

\* C7 amended: the empty list, whose elements all equal "released"
\* vacuously, gives lightgreen as well; the rest as claimed.
C7_StatusColour ==
  Coloured =>
    /\ val = Word("released") => out.v = Word("lightgreen")
    /\ val.t = "list" =>
         out.v = Word(IF \E k \in DOMAIN val.items : val.items[k] # Word("released")
                      THEN "white" ELSE "lightgreen")
    /\ val = Word("in progress") => out.v = Word("grey")
    /\ val.t # "list" /\ val \notin {Word("released"), Word("in progress")} =>
         out.v = Word("white")

\* the colour of the list ["released", "released"]
C7_Witness ==
  /\ Coloured
  /\ val = List(<<Word("released"), Word("released")>>)
  /\ out.v = Word("lightgreen")

(***************************************************************************)
(* Properties of table assembly (SpecTables)                               *)
(***************************************************************************)
\* the positions of the columns named n in table df
Occurrences(df, n) == {j \in DOMAIN df : df[j].name = n}
Min(S) == CHOOSE x \in S : \A y \in S : x <= y

\* C5 as claimed: whenever the input tables, one table or several, hold two
\* columns of one name, the assembled table holds exactly one column of that
\* name and it carries the values of the first of them.  Columns that are
\* null in every row are dropped before, so the claim is stated for names
\* whose first occurrence holds a value.
C5_AsClaimed ==
  pc = "done" =>
    LET all == Concat(dfs)
    IN  \A n \in Names(all) :
          /\ Cardinality(Occurrences(all, n)) >= 2
          /\ NotAllNull(all[Min(Occurrences(all, n))])
          => /\ Cardinality(Occurrences(df_out, n)) = 1
             /\ Col(df_out, n) = all[Min(Occurrences(all, n))].vals

\* the same for two tables or more, where the code does remove the
\* duplicates
C5_SeveralTables == Len(dfs) > 1 => C5_AsClaimed

(***************************************************************************)
(* Properties of the Report Driver (SpecMain)                              *)
(***************************************************************************)
\* C4 as claimed: a request that ends in a transport error or a non-success
\* response is the last request of the run: the run is aborted there and
\* writes no output file.
C4_AsClaimed ==
  \A k \in DOMAIN m.log :
    m.log[k][2] # "ok" => pc = "aborted" /\ k = Len(m.log) /\ ~m.written

\* the input yields no input file-set identifier: no option, an input file
\* without an accepted line, or an accession whose analysis set has no
\* input_file_sets or an empty one
NoInputFileSets ==
  \/ m.mode = "none"
  \/ m.mode = "infile" /\ \A k \in DOMAIN m.infile : ~Accepted(m.infile[k])
  \/ /\ m.mode = "accession"
     /\ Respond(remote, PathAS).kind = "ok"
     /\ Falsy(Get(Body(PathAS), "input_file_sets"))

\* C6 as claimed: once such a run is past the check of its input, it has
\* reported that no input was found and has ended cleanly, having requested
\* nothing but the analysis set and written no output file.
C6_AsClaimed ==
  NoInputFileSets /\ pc \notin {"args", "check"} =>
    /\ pc = "exit" /\ m.printed /\ ~m.written
    /\ \A k \in DOMAIN m.log : m.log[k][1] = PathAS

\* the samples link of the set named by cell, a single identifier
SamplesOf(cell) ==
  IF cell.t = "null" THEN Null ELSE LinkCell(Body(cell.s), "samples").v

measurement_samples_ids ==
  Col(m.df_measurement_samples_ids,
      <<"input_file_set", "measurement_sets", "samples", "@id">>)
auxiliary_samples_ids ==
  Col(m.df_auxiliary_samples_ids,
      <<"input_file_set", "auxiliary_sets", "samples", "@id">>)

\* C10 as claimed: once both second-hop columns are built, row r of the
\* measurement sets' samples column is the samples link of the measurement
\* set named at row r of the measurement sets column (null where that is
\* null), likewise for the auxiliary sets, and every request of the two
\* hops was for a single identifier.
C10_AsClaimed ==
  pc \in {"auxiliary_link", "sheet", "samples_sheet", "analysis_samples",
          "analysis_files", "write"} =>
    /\ \A r \in DOMAIN m.ids :
         /\ ~IsMulti(measurement_ids[r]) =>
              measurement_samples_ids[r] = SamplesOf(measurement_ids[r])
         /\ ~IsMulti(auxiliary_ids[r]) =>
              auxiliary_samples_ids[r] = SamplesOf(auxiliary_ids[r])
    /\ \A k \in DOMAIN m.hops : Len(Split(m.hops[k][1])) = 1

\* the auxiliary sets' half of C10 alone, which the code satisfies for
\* single identifiers
C10_AuxiliaryHop ==
  pc \in {"auxiliary_link", "sheet", "samples_sheet", "analysis_samples",
          "analysis_files", "write"} =>
    \A r \in DOMAIN m.ids :
      ~IsMulti(auxiliary_ids[r]) =>
        auxiliary_samples_ids[r] = SamplesOf(auxiliary_ids[r])

====
